---- MODULE Spec2Model ----
(***************************************************************************)
(* A model of the Mario platformer of src/app.py and src/player.py: the    *)
(* player's state, the entities of the current world, the step loop of     *)
(* MarioApp.step and the collision handlers it dispatches to.              *)
(*                                                                         *)
(* The physics engine, the level loader and the tkinter dialogs are the    *)
(* environment: which contacts begin in a tick, the direction a contact    *)
(* resolves to, the wall clock and the user's answers are inputs.          *)
(***************************************************************************)
EXTENDS Integers, FiniteSets, Sequences, TLC

VARIABLES
    player,     \* the one Player object, kept across worlds
    app,        \* MarioApp's own fields: _current_level, _on_tunnel, _end,
                \* and high_scores, the records written to the score files
    world,      \* the entities of self._world
    now,        \* time.time(), in seconds
    pc,         \* where the step loop is
    pending,    \* switches World.step has still to step in this tick
    settings,   \* the configuration file the game was started with
    bricks0,    \* history: the bricks there were when a switch was activated
    ev          \* the handler that ran last, with its inputs and its result

vars == <<player, app, world, now, pc, pending, settings, bricks0, ev>>

----------------------------------------------------------------------------
(* Bounds of the model *)

\* the clock advances ClockStep seconds at a time, MaxClockSteps times
ClockStep == 5
MaxClockSteps == 5
\* the configured health of the player is 1..MaxConfigHealth
MaxConfigHealth == 3
\* damage is dispatched only while health stays at or above -MaxDebt
MaxDebt == 3
\* a name is entered at a flag at most MaxRecords times
MaxRecords == 1
\* coins are picked up while the score is below MaxScore
MaxScore == 1
\* keys and bounce blocks act while the speed stays within MaxSpeed
MaxSpeed == 300

\* a level file of the world builder has MaxThings characters, in a grid of
\* MaxCols columns and MaxRows rows
MaxCols == 2
MaxRows == 2
MaxThings == 2

(* Program constants *)

BLOCK_SIZE == 2 ^ 4
NoTime == -1        \* an attribute that has not been assigned yet

Dirs == {"A", "B", "L", "R", "None"}

----------------------------------------------------------------------------
(* Settings and levels: the configuration file and the level files.  Two   *)
(* courses: "mobs" is one level with a mushroom, a star and the flag that  *)
(* ends the game; "switches" is a level with one switch and a level with   *)
(* two, with bricks around them and a cloud that drops fireballs; "goals"  *)
(* is a level with a bounce block, a tunnel, a coin, a star and a flag,    *)
(* the sub-level of its tunnel and the level its flag leads to;            *)
(* "creatures" is one level with two mushrooms, a cloud, and a switch with *)
(* a brick in its range; "stars" is one level with a star, a mushroom and  *)
(* a cloud; "jumps" is one level with a brick and a bounce block.          *)

Configs == {"mobs", "switches", "goals", "creatures", "stars", "jumps"}

\* settings['World']['start']
Start(config) ==
    IF config = "mobs" THEN "mobs1"
    ELSE IF config = "switches" THEN "sw1"
    ELSE IF config = "goals" THEN "g1"
    ELSE IF config = "creatures" THEN "cr1"
    ELSE IF config = "stars" THEN "st1"
    ELSE "j1"
\* the level files of a course
LevelsOf(config) ==
    IF config = "mobs" THEN {"mobs1"}
    ELSE IF config = "switches" THEN {"sw1", "sw2"}
    ELSE IF config = "goals" THEN {"g1", "g2", "t1"}
    ELSE IF config = "creatures" THEN {"cr1"}
    ELSE IF config = "stars" THEN {"st1"}
    ELSE {"j1"}
\* settings[level]['goal']
Goal(level) ==
    IF level = "sw1" THEN "sw2"
    ELSE IF level = "g1" THEN "g2"
    ELSE IF level = "t1" THEN "g1"
    ELSE "END"
\* settings[level]['tunnel'], "NONE" for a level without the key
Tunnel(level) == IF level = "g1" THEN "t1" ELSE "NONE"
\* settings['Player']['health']
HealthsOf(config) == IF config = "mobs" THEN 1..MaxConfigHealth ELSE {1}

Cell(x, y) == <<x * BLOCK_SIZE, y * BLOCK_SIZE>>

\* the blocks of a level, by position: create_block for every block character
LevelBlocks(level) ==
    IF level = "mobs1"
    THEN (Cell(9, 2) :> "flag")
    ELSE IF level = "sw1"
    THEN (Cell(4, 3) :> "switch") @@ (Cell(3, 2) :> "brick") @@
         (Cell(8, 3) :> "brick") @@ (Cell(9, 2) :> "flag")
    ELSE IF level = "sw2"
    THEN (Cell(1, 3) :> "switch") @@ (Cell(3, 3) :> "switch") @@
         (Cell(2, 2) :> "brick")
    ELSE IF level = "g1"
    THEN (Cell(2, 3) :> "bounce_block") @@ (Cell(5, 3) :> "tunnel") @@
         (Cell(9, 2) :> "flag")
    ELSE IF level = "cr1"
    THEN (Cell(4, 3) :> "switch") @@ (Cell(3, 2) :> "brick")
    ELSE IF level = "st1"
    THEN <<>>
    ELSE IF level = "j1"
    THEN (Cell(3, 2) :> "brick") @@ (Cell(2, 3) :> "bounce_block")
    ELSE (Cell(9, 2) :> "flag")

MobIds == {"m1", "m2", "c1", "f1"}
MobKind(m) ==
    IF m \in {"m1", "m2"} THEN "mushroom" ELSE IF m = "c1" THEN "cloud" ELSE "fireball"
\* the mobs a level file places: create_mob for every mob character
LevelMobs(level) ==
    IF level = "mobs1" THEN {"m1"}
    ELSE IF level = "sw1" THEN {"c1"}
    ELSE IF level = "cr1" THEN {"m1", "m2", "c1"}
    ELSE IF level = "st1" THEN {"m1", "c1"}
    ELSE {}
\* the tempo a mob is constructed with
InitTempo(m) == IF MobKind(m) = "mushroom" THEN -20 ELSE -40

ItemIds == {"star1", "coin1"}
ItemKind(i) == IF i = "star1" THEN "star" ELSE "coin"
\* the items a level file places: create_item for every item character
LevelItems(level) ==
    IF level \in {"mobs1", "st1"} THEN {"star1"}
    ELSE IF level = "g1" THEN {"star1", "coin1"}
    ELSE {}

----------------------------------------------------------------------------
(* The builders of the world (src/app.py): a world under construction is   *)
(* the sequence of the things added to it.                                 *)

BLOCKS ==
    ("#" :> "brick") @@ ("%" :> "brick_base") @@ ("?" :> "mystery_empty") @@
    ("$" :> "mystery_coin") @@ ("^" :> "cube") @@ ("b" :> "bounce_block") @@
    ("=" :> "tunnel") @@ ("I" :> "flag") @@ ("S" :> "switch_up")

ITEMS == ("C" :> "coin") @@ ("*" :> "star")

MOBS == ("&" :> "cloud") @@ ("@" :> "mushroom")

\* World.add_thing and add_block, add_item, add_mob, which call it; size is
\* "own" when the caller leaves it to the entity
add_thing(w, kind, cls, x, y, size) ==
    [w EXCEPT !.things =
        Append(@, [kind |-> kind, cls |-> cls, position |-> <<x, y>>, size |-> size])]

create_block(w, block_id, x, y) ==
    LET id == BLOCKS[block_id]
        block == IF id \in {"mystery_empty", "mystery_coin"} THEN "MysteryBlock"
                 ELSE IF id = "bounce_block" THEN "BounceBlock"
                 ELSE IF id \in {"tunnel", "flag"} THEN "Goal"
                 ELSE IF id \in {"switch_up", "switch_down"} THEN "Switch"
                 ELSE IF id = "empty_block" THEN "Empty"
                 ELSE "Block"
    IN  add_thing(w, "block", block, x * BLOCK_SIZE, y * BLOCK_SIZE, "own")

create_item(w, item_id, x, y) ==
    LET id == ITEMS[item_id]
        item == IF id = "coin" THEN "Coin" ELSE IF id = "star" THEN "Star" ELSE "DroppedItem"
    IN  add_thing(w, "item", item, x * BLOCK_SIZE, y * BLOCK_SIZE, "own")

create_mob(w, mob_id, x, y) ==
    LET id == MOBS[mob_id]
        mob == IF id = "cloud" THEN "CloudMob"
               ELSE IF id = "fireball" THEN "Fireball"
               ELSE IF id = "mushroom" THEN "MushroomMob"
               ELSE "Mob"
    IN  add_thing(w, "mob", mob, x * BLOCK_SIZE, y * BLOCK_SIZE, "own")

\* create_unknown with the grid cell taken for the position
create_unknown_unscaled(w, entity_id, x, y) ==
    add_thing(w, "thing", "Entity", x, y, <<BLOCK_SIZE, BLOCK_SIZE>>)

create_unknown(w, entity_id, x, y) ==
    add_thing(w, "thing", "Entity", x * BLOCK_SIZE, y * BLOCK_SIZE,
              <<BLOCK_SIZE, BLOCK_SIZE>>)

\* the builder MarioApp.__init__ sets up, called for the character at column
\* x of row y of a level file
WorldBuilder_build(w, char, x, y) ==
    IF char \in DOMAIN BLOCKS THEN create_block(w, char, x, y)
    ELSE IF char \in DOMAIN ITEMS THEN create_item(w, char, x, y)
    ELSE IF char \in DOMAIN MOBS THEN create_mob(w, char, x, y)
    ELSE create_unknown(w, char, x, y)

\* the characters of a level file: those of the three tables and two more
Chars == DOMAIN BLOCKS \cup DOMAIN ITEMS \cup DOMAIN MOBS \cup {"x", "Z"}

Grid == (0 .. MaxCols - 1) \X (0 .. MaxRows - 1)

----------------------------------------------------------------------------
(* Player (src/player.py) and the DynamicEntity it extends *)

Player_init(max_health) ==
    [max_health |-> max_health, health |-> max_health, score |-> 0,
     invincible |-> FALSE, pass |-> FALSE, start_time |-> NoTime,
     switch |-> FALSE, velocity |-> <<0, 0>>, jumping |-> FALSE]

set_health(p, health) == [p EXCEPT !.health = health]

\* change_health without the test of the invincible flag
change_health_always(p, change) == [p EXCEPT !.health = @ + change]

change_health(p, change) ==
    IF ~p.invincible THEN [p EXCEPT !.health = @ + change] ELSE p

change_score(p, change) == [p EXCEPT !.score = @ + change]

change_invincibility(p, invincible) ==
    [p EXCEPT !.invincible = invincible, !.pass = invincible]

\* get_time stamps _start_time when _pass is set; the value returned is the
\* start_time of the player returned here
get_time(p, t) ==
    IF p.pass THEN [p EXCEPT !.pass = FALSE, !.start_time = t] ELSE p

set_on_switch(p, on_switch) == [p EXCEPT !.switch = on_switch]

set_velocity(p, v) == [p EXCEPT !.velocity = v]

set_jumping(p, jumping) == [p EXCEPT !.jumping = jumping]

is_dead(p) == p.health <= 0

----------------------------------------------------------------------------
(* World: the entities of one loaded level *)

Switch_init == [active |-> FALSE, switch_time |-> NoTime, current_time |-> NoTime]

\* load_world(builder, level): a new world with new entity objects
load_world(level) ==
    [blocks   |-> LevelBlocks(level),
     switches |-> [s \in {q \in DOMAIN LevelBlocks(level) : LevelBlocks(level)[q] = "switch"}
                        |-> Switch_init],
     mobs     |-> [m \in MobIds |-> [present |-> m \in LevelMobs(level),
                                     tempo |-> InitTempo(m)]],
     items    |-> LevelItems(level),
     \* the contacts of the player with tunnel blocks that have begun and not
     \* separated, with the direction they were resolved to
     touching |-> {}]

remove_mob(w, m) == [w EXCEPT !.mobs[m].present = FALSE]

remove_item(w, i) == [w EXCEPT !.items = @ \ {i}]

remove_block(w, b) == [w EXCEPT !.blocks[b] = "none"]

\* the blocks whose position lies within max_distance of (x, y)
get_things_in_range(w, x, y, max_distance) ==
    {q \in DOMAIN w.blocks :
        /\ w.blocks[q] # "none"
        /\ (q[1] - x) * (q[1] - x) + (q[2] - y) * (q[2] - y)
              <= max_distance * max_distance}

BlocksWithId(w, id) == {q \in DOMAIN w.blocks : w.blocks[q] = id}

----------------------------------------------------------------------------
(* Entity behaviour (src/app.py).  An operator takes the game g, a record  *)
(* of the player, the world and the app's fields, and gives the game after *)
(* the call.                                                               *)

\* MushroomMob.reverse
reverse(w, m) == [w EXCEPT !.mobs[m].tempo = -@]

\* MushroomMob.on_hit with the mob left in the world on a hit from Above
MushroomMob_on_hit_keeps(g, m, d) ==
    IF d = "A"
    THEN [g EXCEPT !.player = set_velocity(@, <<0, -280>>)]
    ELSE IF d = "L"
    THEN [g EXCEPT !.player = change_health(set_velocity(@, <<-60, 0>>), -1),
                   !.world = reverse(@, m)]
    ELSE IF d = "R"
    THEN [g EXCEPT !.player = change_health(
                                  change_health(set_velocity(@, <<60, 0>>), -1), -1),
                   !.world = reverse(@, m)]
    ELSE [g EXCEPT !.player = change_health(@, -1)]

\* MushroomMob.on_hit with the Right branch a mirror of the Left branch
MushroomMob_on_hit_mirror(g, m, d) ==
    IF d = "A"
    THEN [g EXCEPT !.player = set_velocity(@, <<0, -280>>),
                   !.world = remove_mob(@, m)]
    ELSE IF d = "L"
    THEN [g EXCEPT !.player = change_health(set_velocity(@, <<-60, 0>>), -1),
                   !.world = reverse(@, m)]
    ELSE IF d = "R"
    THEN [g EXCEPT !.player = change_health(set_velocity(@, <<60, 0>>), -1),
                   !.world = reverse(@, m)]
    ELSE [g EXCEPT !.player = change_health(@, -1)]

\* MushroomMob.on_hit with a knockback in its last branch as well
MushroomMob_on_hit_knocks(g, m, d) ==
    IF d = "A"
    THEN [g EXCEPT !.player = set_velocity(@, <<0, -280>>),
                   !.world = remove_mob(@, m)]
    ELSE IF d = "L"
    THEN [g EXCEPT !.player = change_health(set_velocity(@, <<-60, 0>>), -1),
                   !.world = reverse(@, m)]
    ELSE IF d = "R"
    THEN [g EXCEPT !.player = change_health(
                                  change_health(set_velocity(@, <<60, 0>>), -1), -1),
                   !.world = reverse(@, m)]
    ELSE [g EXCEPT !.player = change_health(set_velocity(@, <<0, 0>>), -1)]

MushroomMob_on_hit(g, m, d) ==
    IF d = "A"
    THEN [g EXCEPT !.player = set_velocity(@, <<0, -280>>),
                   !.world = remove_mob(@, m)]
    ELSE IF d = "L"
    THEN [g EXCEPT !.player = change_health(set_velocity(@, <<-60, 0>>), -1),
                   !.world = reverse(@, m)]
    ELSE IF d = "R"
    THEN [g EXCEPT !.player = change_health(
                                  change_health(set_velocity(@, <<60, 0>>), -1), -1),
                   !.world = reverse(@, m)]
    ELSE [g EXCEPT !.player = change_health(@, -1)]

\* mob.on_hit(arbiter, (world, player)); the clouds and fireballs of the game
\* library have no reaction to the player that the model keeps
Mob_on_hit(g, m, d) ==
    IF MobKind(m) = "mushroom" THEN MushroomMob_on_hit(g, m, d) ELSE g

\* Star.collect; the other items of the levels are stars
Star_collect(p) == change_invincibility(p, TRUE)

\* Coin.collect of the game library adds the coin's value to the score
Coin_collect(p) == change_score(p, 1)

\* dropped_item.collect(player) for item i
Item_collect(p, i) == IF ItemKind(i) = "star" THEN Star_collect(p) ELSE Coin_collect(p)

BounceBlock_on_hit(g, d) ==
    IF d = "A"
    THEN [g EXCEPT !.player = set_velocity(@, <<@.velocity[1], @.velocity[2] - 280>>)]
    ELSE g

Switch_on_hit(g, s, d, t) ==
    IF d = "A"
    THEN [g EXCEPT !.world.switches[s].active = TRUE,
                   !.player = set_on_switch(@, TRUE),
                   !.world.switches[s].switch_time = t]
    ELSE g

\* Switch.step at time t.  crash: the step reads self._switch_time before
\* any on_hit has assigned it (AttributeError).
Switch_step(g, s, t) ==
    LET sw == g.world.switches[s]
        g1 == [g EXCEPT !.world.switches[s].current_time = t]
        things_in_range == get_things_in_range(g.world, s[1], s[2], 3 * BLOCK_SIZE)
    IN  IF ~g.player.switch
        THEN [g |-> g1, crash |-> FALSE]
        ELSE IF sw.switch_time = NoTime
        THEN [g |-> g1, crash |-> TRUE]
        ELSE IF (t - sw.switch_time) < 10
        THEN [g |-> [g1 EXCEPT !.world.blocks =
                        [q \in DOMAIN @ |->
                            IF q \in things_in_range /\ @[q] = "brick"
                            THEN "empty_block" ELSE @[q]]],
              crash |-> FALSE]
        ELSE [g |-> [g1 EXCEPT !.world.blocks =
                        [q \in DOMAIN @ |->
                            IF q \in things_in_range /\ @[q] = "empty_block"
                            THEN "brick" ELSE @[q]],
                     !.world.switches[s].active = FALSE,
                     !.player = set_on_switch(@, FALSE)],
              crash |-> FALSE]

\* block.on_hit(arbiter, (world, player)) for the block at b
Block_on_hit(g, b, d, t) ==
    IF g.world.blocks[b] = "switch" THEN Switch_on_hit(g, b, d, t)
    ELSE IF g.world.blocks[b] = "bounce_block" THEN BounceBlock_on_hit(g, d)
    ELSE g

----------------------------------------------------------------------------
(* MarioApp (src/app.py) *)

\* reset_world: a new world; the same Player object is added to it with a new
\* physics body, so it is at rest
reset_world(g, new_level) ==
    [g EXCEPT !.world = load_world(new_level),
              !.app.current_level = new_level,
              !.player = set_velocity(@, <<0, 0>>)]

\* write_high_scores appends one line to the file of the level
write_high_scores(a, level_name, name, score) ==
    [a EXCEPT !.high_scores =
        Append(@, [level |-> level_name, name |-> name, score |-> score])]

\* _handle_player_collide_block without the test for an Empty block
_handle_player_collide_block_solid(g, b, d, name, t) ==
    LET id == g.world.blocks[b]
        g1 == IF d = "A" THEN [g EXCEPT !.player = set_jumping(@, FALSE)] ELSE g
        g2 == IF id = "flag" /\ d = "A"
              THEN [g1 EXCEPT !.player = set_health(@, @.max_health)] ELSE g1
        gw == [g2 EXCEPT !.app = write_high_scores(@, @.current_level, name,
                                                   g2.player.score)]
        g3 == IF id = "flag" /\ name # "None"
              THEN IF Goal(g2.app.current_level) = "END"
                   THEN [gw EXCEPT !.app.end = TRUE]
                   ELSE reset_world(gw, Goal(g2.app.current_level))
              ELSE g2
        g4 == IF id = "tunnel" /\ d = "A"
              THEN [g3 EXCEPT !.app.on_tunnel = TRUE] ELSE g3
    IN  IF id = "switch" /\ g3.player.switch
        THEN [g |-> g3, ret |-> "False", hit |-> FALSE]
        ELSE IF id = "flag" /\ name # "None" /\ Goal(g2.app.current_level) # "END"
        THEN [g |-> g4, ret |-> "True", hit |-> TRUE]
        ELSE [g |-> Block_on_hit(g4, b, d, t), ret |-> "True", hit |-> TRUE]

\* _handle_player_collide_block with the record written after the transition
_handle_player_collide_block_late(g, b, d, name, t) ==
    LET id == g.world.blocks[b]
        g1 == IF d = "A" THEN [g EXCEPT !.player = set_jumping(@, FALSE)] ELSE g
        g2 == IF id = "flag" /\ d = "A"
              THEN [g1 EXCEPT !.player = set_health(@, @.max_health)] ELSE g1
        gt == IF Goal(g2.app.current_level) = "END"
              THEN [g2 EXCEPT !.app.end = TRUE]
              ELSE reset_world(g2, Goal(g2.app.current_level))
        g3 == IF id = "flag" /\ name # "None"
              THEN [gt EXCEPT !.app = write_high_scores(@, @.current_level, name,
                                                        gt.player.score)]
              ELSE g2
        g4 == IF id = "tunnel" /\ d = "A"
              THEN [g3 EXCEPT !.app.on_tunnel = TRUE] ELSE g3
    IN  IF id = "switch" /\ g3.player.switch
        THEN [g |-> g3, ret |-> "False", hit |-> FALSE]
        ELSE IF id = "empty_block"
        THEN [g |-> g4, ret |-> "False", hit |-> FALSE]
        ELSE IF id = "flag" /\ name # "None" /\ Goal(g2.app.current_level) # "END"
        THEN [g |-> g4, ret |-> "True", hit |-> TRUE]
        ELSE [g |-> Block_on_hit(g4, b, d, t), ret |-> "True", hit |-> TRUE]

\* name: the answer to the level-completion prompt, "None" when cancelled
_handle_player_collide_block(g, b, d, name, t) ==
    LET id == g.world.blocks[b]
        g1 == IF d = "A" THEN [g EXCEPT !.player = set_jumping(@, FALSE)] ELSE g
        g2 == IF id = "flag" /\ d = "A"
              THEN [g1 EXCEPT !.player = set_health(@, @.max_health)] ELSE g1
        gw == [g2 EXCEPT !.app = write_high_scores(@, @.current_level, name,
                                                   g2.player.score)]
        g3 == IF id = "flag" /\ name # "None"
              THEN IF Goal(g2.app.current_level) = "END"
                   THEN [gw EXCEPT !.app.end = TRUE]
                   ELSE reset_world(gw, Goal(g2.app.current_level))
              ELSE g2
        g4 == IF id = "tunnel" /\ d = "A"
              THEN [g3 EXCEPT !.app.on_tunnel = TRUE] ELSE g3
    IN  IF id = "switch" /\ g3.player.switch
        THEN [g |-> g3, ret |-> "False", hit |-> FALSE]
        ELSE IF id = "empty_block"
        THEN [g |-> g4, ret |-> "False", hit |-> FALSE]
        ELSE IF id = "flag" /\ name # "None" /\ Goal(g2.app.current_level) # "END"
        \* the flag of the old world: Goal.on_hit is Block's, which does nothing
        THEN [g |-> g4, ret |-> "True", hit |-> TRUE]
        ELSE [g |-> Block_on_hit(g4, b, d, t), ret |-> "True", hit |-> TRUE]

_handle_player_separate_block(g, b) ==
    IF g.world.blocks[b] = "tunnel" THEN [g EXCEPT !.app.on_tunnel = FALSE] ELSE g

\* _duck; reading the 'tunnel' key of a level that has none raises KeyError
\* after the velocity is set
_duck(g) ==
    LET g1 == [g EXCEPT !.player = set_velocity(@, <<@.velocity[1], @.velocity[2] + 120>>)]
    IN  IF g1.app.on_tunnel /\ Tunnel(g1.app.current_level) # "NONE"
        THEN [reset_world(g1, Tunnel(g1.app.current_level)) EXCEPT !.app.on_tunnel = FALSE]
        ELSE g1

\* _handle_player_collide_mob with on_hit invoked for an invincible player too
_handle_player_collide_mob_hits(g, m, d) ==
    IF ~g.player.invincible
    THEN [g |-> Mob_on_hit(g, m, d), ret |-> "True", hit |-> TRUE]
    ELSE [g |-> [Mob_on_hit(g, m, d) EXCEPT !.world = remove_mob(@, m)],
          ret |-> "True", hit |-> TRUE]

_handle_player_collide_mob(g, m, d) ==
    IF ~g.player.invincible
    THEN [g |-> Mob_on_hit(g, m, d), ret |-> "True", hit |-> TRUE]
    ELSE [g |-> [g EXCEPT !.world = remove_mob(@, m)], ret |-> "True", hit |-> FALSE]

\* _handle_player_collide_item with the item collected twice
_handle_player_collide_item_twice(g, i) ==
    [g |-> [g EXCEPT !.player = Item_collect(Item_collect(@, i), i),
                     !.world = remove_item(@, i)],
     ret |-> "False", hit |-> FALSE]

_handle_player_collide_item(g, i) ==
    [g |-> [g EXCEPT !.player = Item_collect(@, i), !.world = remove_item(@, i)],
     ret |-> "False", hit |-> FALSE]

\* _handle_mob_collide_block with the mushroom reversed whatever the direction
_handle_mob_collide_block_any(g, m, b, d) ==
    LET g1 == IF MobKind(m) = "fireball"
              THEN [g EXCEPT !.world =
                       remove_mob(IF @.blocks[b] = "brick" THEN remove_block(@, b) ELSE @, m)]
              ELSE IF MobKind(m) = "mushroom"
              THEN [g EXCEPT !.world = reverse(@, m)]
              ELSE g
    IN  [g |-> g1,
         ret |-> IF g.world.blocks[b] = "empty_block" THEN "False" ELSE "True",
         hit |-> FALSE]

\* _jump without the test of the jumping flag
_jump_always(g) ==
    [g EXCEPT !.player =
        set_velocity(set_jumping(@, TRUE), <<@.velocity[1], @.velocity[2] - 150>>)]

_jump(g) ==
    IF ~g.player.jumping
    THEN [g EXCEPT !.player =
            set_velocity(set_jumping(@, TRUE), <<@.velocity[1], @.velocity[2] - 150>>)]
    ELSE g

_handle_mob_collide_block(g, m, b, d) ==
    LET g1 == IF MobKind(m) = "fireball"
              THEN [g EXCEPT !.world =
                       remove_mob(IF @.blocks[b] = "brick" THEN remove_block(@, b) ELSE @, m)]
              ELSE IF MobKind(m) = "mushroom" /\ (d = "L" \/ d = "R")
              THEN [g EXCEPT !.world = reverse(@, m)]
              ELSE g
    IN  [g |-> g1,
         ret |-> IF g.world.blocks[b] = "empty_block" THEN "False" ELSE "True",
         hit |-> FALSE]

\* _handle_mob_collide_mob with the first mob alone reversed
_handle_mob_collide_mob_first(g, mob1, mob2) ==
    LET g1 == IF MobKind(mob1) = "fireball" \/ MobKind(mob2) = "fireball"
              THEN [g EXCEPT !.world = remove_mob(remove_mob(@, mob1), mob2)]
              ELSE IF MobKind(mob1) = "mushroom" \/ MobKind(mob2) = "mushroom"
              THEN [g EXCEPT !.world = reverse(@, mob1)]
              ELSE g
    IN  [g |-> g1, ret |-> "False", hit |-> FALSE]

_handle_mob_collide_mob(g, mob1, mob2) ==
    LET g1 == IF MobKind(mob1) = "fireball" \/ MobKind(mob2) = "fireball"
              THEN [g EXCEPT !.world = remove_mob(remove_mob(@, mob1), mob2)]
              ELSE IF MobKind(mob1) = "mushroom" \/ MobKind(mob2) = "mushroom"
              THEN [g EXCEPT !.world = reverse(reverse(@, mob1), mob2)]
              ELSE g
    IN  [g |-> g1, ret |-> "False", hit |-> FALSE]

\* MarioApp.step with invincibility cleared once 10 s have elapsed
MarioApp_step_early(g, t) ==
    LET g1 == IF is_dead(g.player)
              THEN [g EXCEPT !.player = change_health(@, @.max_health)] ELSE g
        p2 == get_time(g1.player, t)
    IN  IF g1.player.invincible
        THEN IF (t - p2.start_time) >= 10
             THEN [g1 EXCEPT !.player = change_invincibility(p2, FALSE)]
             ELSE [g1 EXCEPT !.player = p2]
        ELSE g1

\* MarioApp.step after self._world.step(data), while self._end is not set
MarioApp_step(g, t) ==
    LET g1 == IF is_dead(g.player)
              THEN [g EXCEPT !.player = change_health(@, @.max_health)] ELSE g
        p2 == get_time(g1.player, t)
    IN  IF g1.player.invincible
        THEN IF (t - p2.start_time) > 10
             THEN [g1 EXCEPT !.player = change_invincibility(p2, FALSE)]
             ELSE [g1 EXCEPT !.player = p2]
        ELSE g1

\* reset_popup and load_popup once the user has confirmed
reset_popup(g) ==
    reset_world([g EXCEPT !.player = change_score(set_health(@, @.max_health), -@.score)],
                g.app.current_level)

load_popup(g, input) ==
    reset_world([g EXCEPT !.player = change_score(set_health(@, @.max_health), -@.score)],
                input)

----------------------------------------------------------------------------
(* The state machine *)

G == [player |-> player, world |-> world, app |-> app]

Ev(op, mob, blk, item, dir, ret, hit) ==
    [op |-> op, mob |-> mob, blk |-> blk, item |-> item, dir |-> dir,
     ret |-> ret, hit |-> hit]

\* an action that is no collision handler and no entity step
NoEv == Ev("-", "-", <<>>, "-", "-", "-", FALSE)

\* the state after MarioApp.__init__, between its first step and the next
Init ==
    /\ settings \in Configs
    /\ \E max_health \in HealthsOf(settings) : player = Player_init(max_health)
    /\ app = [current_level |-> Start(settings), on_tunnel |-> FALSE, end |-> FALSE,
              high_scores |-> <<>>]
    /\ world = load_world(Start(settings))
    /\ now = 0
    /\ pc = "idle"
    /\ pending = {}
    /\ bricks0 = {}
    /\ ev = NoEv

\* a switch of w that is inactive in w and active in w2
Activated(w, w2) ==
    \E s \in (DOMAIN w.switches) \cap (DOMAIN w2.switches) :
        ~w.switches[s].active /\ w2.switches[s].active

AnyActive(w) == \E s \in DOMAIN w.switches : w.switches[s].active

\* the game becomes g; bricks0 keeps the bricks there were when a switch was
\* activated, for as long as a switch is active
Set(g) ==
    /\ player' = g.player
    /\ world' = g.world
    /\ app' = g.app
    /\ bricks0' = IF Activated(world, g.world) THEN BlocksWithId(world, "brick")
                  ELSE IF AnyActive(g.world) THEN bricks0 ELSE {}
    /\ UNCHANGED settings

\* the wall clock moves on
AdvanceTime ==
    /\ pc \in {"idle", "steps", "contacts", "crashed"}
    /\ now < MaxClockSteps * ClockStep
    /\ now' = now + ClockStep
    /\ ev' = NoEv
    /\ UNCHANGED <<player, app, world, pc, pending, settings, bricks0>>

\* MarioApp.step calls World.step, which steps every entity
WorldStepBegin ==
    /\ pc = "idle"
    /\ pc' = "steps"
    /\ pending' = DOMAIN world.switches
    /\ ev' = NoEv
    /\ UNCHANGED <<player, app, world, now, settings, bricks0>>

\* the entities are stepped in the order the level file added them: a row of
\* the file from left to right
NextToStep(S) == CHOOSE s \in S : \A r \in S : s[1] <= r[1]

SwitchStep(s) ==
    /\ pc = "steps"
    /\ s \in pending
    /\ s = NextToStep(pending)
    /\ LET r == Switch_step(G, s, now)
       IN  /\ Set(r.g)
           /\ pc' = IF r.crash THEN "crashed" ELSE "steps"
           /\ pending' = IF r.crash THEN {} ELSE pending \ {s}
    /\ ev' = Ev("switch_step", "-", s, "-", "-", "-", FALSE)
    /\ UNCHANGED now

\* CloudMob.step of the game library drops a fireball
CloudStep(c, f) ==
    /\ pc = "steps"
    /\ MobKind(c) = "cloud" /\ world.mobs[c].present
    /\ MobKind(f) = "fireball" /\ ~world.mobs[f].present
    /\ Set([G EXCEPT !.world.mobs[f] = [present |-> TRUE, tempo |-> InitTempo(f)]])
    /\ ev' = NoEv
    /\ UNCHANGED <<now, pc, pending>>

\* every entity is stepped: the physics step begins, and dispatches the contacts
SpaceStep ==
    /\ pc = "steps"
    /\ pending = {}
    /\ pc' = "contacts"
    /\ ev' = NoEv
    /\ UNCHANGED <<player, app, world, now, pending, settings, bricks0>>

PlayerCollideMob(m, d) ==
    /\ pc = "contacts"
    /\ world.mobs[m].present
    /\ player.invincible \/ player.health > -MaxDebt
    /\ LET r == _handle_player_collide_mob(G, m, d)
       IN  /\ Set(r.g)
           /\ ev' = Ev("player_mob", m, <<>>, "-", d, r.ret, r.hit)
    /\ UNCHANGED <<now, pc, pending>>

PlayerCollideItem(i) ==
    /\ pc = "contacts"
    /\ i \in world.items
    /\ ItemKind(i) = "coin" => player.score < MaxScore
    /\ LET r == _handle_player_collide_item(G, i)
       IN  /\ Set(r.g)
           /\ ev' = Ev("player_item", "-", <<>>, i, "-", r.ret, r.hit)
    /\ UNCHANGED <<now, pc, pending>>

\* name is the answer to the prompt of a flag; no other block prompts
PlayerCollideBlock(b, d, name) ==
    /\ pc = "contacts"
    /\ b \in DOMAIN world.blocks
    /\ world.blocks[b] # "none"
    /\ name # "None" => world.blocks[b] = "flag" /\ Len(app.high_scores) < MaxRecords
    /\ (world.blocks[b] = "bounce_block" /\ d = "A")
          => player.velocity[2] - 280 >= -MaxSpeed
    /\ \A c \in world.touching : c[1] # b
    /\ LET r == _handle_player_collide_block(G, b, d, name, now)
       IN  /\ Set(IF world.blocks[b] = "tunnel"
                  THEN [r.g EXCEPT !.world.touching = @ \cup {<<b, d>>}]
                  ELSE r.g)
           /\ ev' = Ev("player_block", "-", b, "-", d, r.ret, r.hit)
    /\ UNCHANGED <<now, pc, pending>>

\* a contact of the player with a tunnel block ends
PlayerSeparateBlock(b) ==
    /\ pc = "contacts"
    /\ \E c \in world.touching : c[1] = b
    /\ Set([_handle_player_separate_block(G, b)
                EXCEPT !.world.touching = {c \in @ : c[1] # b}])
    /\ ev' = Ev("player_separate", "-", b, "-", "-", "True", FALSE)
    /\ UNCHANGED <<now, pc, pending>>

MobCollideBlock(m, b, d) ==
    /\ pc = "contacts"
    /\ world.mobs[m].present
    /\ b \in DOMAIN world.blocks
    /\ world.blocks[b] # "none"
    /\ LET r == _handle_mob_collide_block(G, m, b, d)
       IN  /\ Set(r.g)
           /\ ev' = Ev("mob_block", m, b, "-", d, r.ret, r.hit)
    /\ UNCHANGED <<now, pc, pending>>

\* the contact of two mobs; mob holds the first and item the second
MobCollideMob(mob1, mob2) ==
    /\ pc = "contacts"
    /\ mob1 # mob2
    /\ world.mobs[mob1].present /\ world.mobs[mob2].present
    /\ LET r == _handle_mob_collide_mob(G, mob1, mob2)
       IN  /\ Set(r.g)
           /\ ev' = Ev("mob_mob", mob1, <<>>, mob2, "-", r.ret, r.hit)
    /\ UNCHANGED <<now, pc, pending>>

\* World.step has returned: the rest of MarioApp.step
StepFinish ==
    /\ pc = "contacts"
    /\ IF app.end
       THEN /\ pc' = "ended"
            /\ UNCHANGED <<player, app, world, settings, bricks0>>
       ELSE /\ pc' = "idle"
            /\ Set(MarioApp_step(G, now))
    /\ ev' = NoEv
    /\ UNCHANGED <<now, pending>>

\* the menu, between two ticks or after the step loop has died
ResetPopup ==
    /\ pc \in {"idle", "crashed"}
    /\ Set(reset_popup(G))
    /\ ev' = NoEv
    /\ UNCHANGED <<now, pc, pending>>

LoadPopup(input) ==
    /\ pc \in {"idle", "crashed"}
    /\ Set(load_popup(G, input))
    /\ ev' = NoEv
    /\ UNCHANGED <<now, pc, pending>>

\* the keyboard, between two ticks or after the step loop has died
Duck ==
    /\ pc \in {"idle", "crashed"}
    /\ player.velocity[2] + 120 <= MaxSpeed
    /\ Set(_duck(G))
    /\ ev' = Ev("duck", "-", <<>>, "-", "-", "-", FALSE)
    /\ UNCHANGED <<now, pc, pending>>

\* ret tells whether the request found the jumping flag clear
Jump ==
    /\ pc \in {"idle", "crashed"}
    /\ player.jumping \/ player.velocity[2] - 150 >= -MaxSpeed
    /\ Set(_jump(G))
    /\ ev' = Ev("jump", "-", <<>>, "-", "-", IF player.jumping THEN "False" ELSE "True", FALSE)
    /\ UNCHANGED <<now, pc, pending>>

\* the world builder reads a level file row by row, a row from left to
\* right; pending holds the characters it has not read yet, with their cells
NextToBuild(S) ==
    CHOOSE c \in S : \A r \in S : c[3] < r[3] \/ (c[3] = r[3] /\ c[2] <= r[2])

Build ==
    /\ pc = "building"
    /\ pending # {}
    /\ LET c == NextToBuild(pending)
       IN  /\ world' = WorldBuilder_build(world, c[1], c[2], c[3])
           /\ pending' = pending \ {c}
           /\ ev' = Ev("build", "-", <<c[2], c[3]>>, c[1], "-", "-", FALSE)
    /\ UNCHANGED <<player, app, now, pc, settings, bricks0>>

\* the actions of a course without switches and clouds
NextMobs ==
    \/ AdvanceTime
    \/ WorldStepBegin
    \/ SpaceStep
    \/ \E m \in MobIds, d \in Dirs : PlayerCollideMob(m, d)
    \/ \E i \in ItemIds : PlayerCollideItem(i)
    \/ \E b \in DOMAIN world.blocks, d \in Dirs, name \in {"None", "ann"} :
          PlayerCollideBlock(b, d, name)
    \/ \E m \in MobIds, b \in DOMAIN world.blocks, d \in Dirs : MobCollideBlock(m, b, d)
    \/ StepFinish
    \/ ResetPopup
    \/ \E input \in LevelsOf(settings) : LoadPopup(input)

\* the actions of a course without items
NextSwitches ==
    \/ AdvanceTime
    \/ WorldStepBegin
    \/ \E s \in DOMAIN world.switches : SwitchStep(s)
    \/ \E c \in MobIds, f \in MobIds : CloudStep(c, f)
    \/ SpaceStep
    \/ \E m \in MobIds, d \in Dirs : PlayerCollideMob(m, d)
    \/ \E b \in DOMAIN world.blocks, d \in Dirs, name \in {"None", "ann"} :
          PlayerCollideBlock(b, d, name)
    \/ \E m \in MobIds, b \in DOMAIN world.blocks, d \in Dirs : MobCollideBlock(m, b, d)
    \/ StepFinish
    \/ ResetPopup
    \/ \E input \in LevelsOf(settings) : LoadPopup(input)

\* the actions of a course without mobs, switches and a deadline
NextGoals ==
    \/ WorldStepBegin
    \/ SpaceStep
    \/ \E i \in ItemIds : PlayerCollideItem(i)
    \/ \E b \in DOMAIN world.blocks, d \in Dirs, name \in {"None", "ann"} :
          PlayerCollideBlock(b, d, name)
    \/ \E b \in DOMAIN world.blocks : PlayerSeparateBlock(b)
    \/ StepFinish
    \/ Duck
    \/ ResetPopup
    \/ \E input \in LevelsOf(settings) : LoadPopup(input)

\* the actions of a course of one level whose mobs stay out of the player's
\* reach, without items, a flag and a deadline
NextCreatures ==
    \/ WorldStepBegin
    \/ \E s \in DOMAIN world.switches : SwitchStep(s)
    \/ \E c \in MobIds, f \in MobIds : CloudStep(c, f)
    \/ SpaceStep
    \/ \E b \in DOMAIN world.blocks, d \in Dirs : PlayerCollideBlock(b, d, "None")
    \/ \E m \in MobIds, b \in DOMAIN world.blocks, d \in Dirs : MobCollideBlock(m, b, d)
    \/ \E mob1 \in MobIds, mob2 \in MobIds : MobCollideMob(mob1, mob2)
    \/ StepFinish
    \/ ResetPopup

\* the actions of a course of one level without blocks and a deadline
NextStars ==
    \/ WorldStepBegin
    \/ \E c \in MobIds, f \in MobIds : CloudStep(c, f)
    \/ SpaceStep
    \/ \E m \in MobIds, d \in Dirs : PlayerCollideMob(m, d)
    \/ \E i \in ItemIds : PlayerCollideItem(i)
    \/ StepFinish
    \/ ResetPopup

\* the wall clock moves on between a tick and the next: a star is picked up
\* and stamped within one call of MarioApp.step, which takes far less than
\* ClockStep seconds
StarClock == AdvanceTime /\ ~player.pass

\* a star is picked up while the clock of the model can still run past its
\* ten seconds
EarlyStar(i) == PlayerCollideItem(i) /\ now + 10 < MaxClockSteps * ClockStep

\* the actions of the same course with its clock, and its one star for good:
\* the menu is left alone
NextStarsLive ==
    \/ StarClock
    \/ WorldStepBegin
    \/ \E c \in MobIds, f \in MobIds : CloudStep(c, f)
    \/ SpaceStep
    \/ \E m \in MobIds, d \in Dirs : PlayerCollideMob(m, d)
    \/ \E i \in ItemIds : EarlyStar(i)
    \/ StepFinish

\* the actions of a course of one level with blocks only, without a deadline
NextJumps ==
    \/ WorldStepBegin
    \/ SpaceStep
    \/ \E b \in DOMAIN world.blocks, d \in Dirs : PlayerCollideBlock(b, d, "None")
    \/ StepFinish
    \/ Jump
    \/ Duck
    \/ ResetPopup

\* the construction of a world
NextBuild == Build

Next ==
    \/ NextMobs \/ NextSwitches \/ NextGoals \/ NextCreatures \/ NextStars \/ NextStarsLive
    \/ NextJumps \/ NextBuild

Spec == Init /\ [][Next]_vars

\* the game started with the configuration file of one course
InitMobs == Init /\ settings = "mobs"

SpecMobs == InitMobs /\ [][NextMobs]_vars

InitSwitches == Init /\ settings = "switches"

SpecSwitches == InitSwitches /\ [][NextSwitches]_vars

InitGoals == Init /\ settings = "goals"

SpecGoals == InitGoals /\ [][NextGoals]_vars

InitCreatures == Init /\ settings = "creatures"

SpecCreatures == InitCreatures /\ [][NextCreatures]_vars

InitStars == Init /\ settings = "stars"

SpecStars == InitStars /\ [][NextStars]_vars

InitJumps == Init /\ settings = "jumps"

SpecJumps == InitJumps /\ [][NextJumps]_vars

\* load_world is called with the builder and a level file of at most
\* MaxThings characters
InitBuild ==
    /\ settings = "build"
    /\ \E cells \in SUBSET Grid :
          /\ Cardinality(cells) <= MaxThings
          /\ \E f \in [cells -> Chars] : pending = {<<f[c], c[1], c[2]>> : c \in cells}
    /\ world = [things |-> <<>>]
    /\ player = Player_init(1)
    /\ app = [current_level |-> "file", on_tunnel |-> FALSE, end |-> FALSE,
              high_scores |-> <<>>]
    /\ now = 0
    /\ pc = "building"
    /\ bricks0 = {}
    /\ ev = NoEv

SpecBuild == InitBuild /\ [][NextBuild]_vars

\* MarioApp.step re-arms itself with after(10, self.step) at the end of each
\* call, and the wall clock never stops
SpecStarsLive ==
    /\ InitStars
    /\ [][NextStarsLive]_vars
    /\ WF_vars(StarClock)
    /\ WF_vars(WorldStepBegin)
    /\ WF_vars(SpaceStep)
    /\ WF_vars(StepFinish)

----------------------------------------------------------------------------
(* Mushroom collisions, the star and the player's health (SpecMobs) *)

Mushrooms == {m \in MobIds : MobKind(m) = "mushroom"}

\* a step that replaces the world by a newly loaded one
WorldReplaced ==
    \/ ResetPopup
    \/ \E input \in LevelsOf(settings) : LoadPopup(input)
    \/ \E b \in DOMAIN world.blocks, d \in Dirs :
          /\ PlayerCollideBlock(b, d, "ann")
          /\ Goal(app.current_level) # "END"

\* a non-invincible player collides with mushroom m, resolved as d
MushroomHit(m, d) == ~player.invincible /\ PlayerCollideMob(m, d)

\* C1: a mushroom hit from Above by a non-invincible player is removed in
\* that dispatch, the player's health is unchanged and its velocity is the
\* bounce (0, -280); a mushroom that is not in the world is in no later state
\* of that world: it is there again only once the world has been replaced.
C1_AboveRemovesMushroom ==
    [][\A m \in Mushrooms :
          /\ MushroomHit(m, "A") =>
                /\ ~world'.mobs[m].present
                /\ player'.health = player.health
                /\ player'.velocity = <<0, -280>>
          /\ (~world.mobs[m].present /\ world'.mobs[m].present) => WorldReplaced
      ]_vars

C1_Witness ==
    /\ ev.op = "player_mob" /\ ev.dir = "A" /\ ev.hit
    /\ ev.mob \in Mushrooms
    /\ ~world.mobs[ev.mob].present
    /\ player.velocity = <<0, -280>>

\* C2: a non-invincible player with health 3 that collides with a mushroom
\* from the Right ends the dispatch with health 1, and the mushroom's tempo
\* has changed its sign.
C2_RightHitFromThree ==
    [][\A m \in Mushrooms :
          (MushroomHit(m, "R") /\ player.health = 3) =>
              /\ player'.health = 1
              /\ world'.mobs[m].tempo * world.mobs[m].tempo < 0
      ]_vars

C2_Witness ==
    /\ ev.op = "player_mob" /\ ev.dir = "R" /\ ev.hit
    /\ ev.mob \in Mushrooms
    /\ player.health = 1 /\ player.max_health = 3

\* C3 as claimed: a Left or Right hit costs exactly 1 health, knocks the
\* player back horizontally by 60 and negates the tempo once.
C3_SideHitCostsOne ==
    [][\A m \in Mushrooms, d \in {"L", "R"} :
          MushroomHit(m, d) =>
              /\ player'.health = player.health - 1
              /\ player'.velocity = IF d = "L" THEN <<-60, 0>> ELSE <<60, 0>>
              /\ world'.mobs[m].tempo = -world.mobs[m].tempo
      ]_vars

\* C4: a hit that is resolved as none of Above, Left, Right costs exactly 1
\* health and leaves the tempo, the mushroom's presence and the player's
\* velocity as they were.
C4_OtherHitOnlyDamages ==
    [][\A m \in Mushrooms, d \in Dirs \ {"A", "L", "R"} :
          MushroomHit(m, d) =>
              /\ player'.health = player.health - 1
              /\ world'.mobs[m] = world.mobs[m]
              /\ world'.mobs[m].present
              /\ player'.velocity = player.velocity
      ]_vars

\* the hit found the player moving, so that an unchanged velocity shows
C4_Witness ==
    /\ ev.op = "player_mob" /\ ev.dir \in {"B", "None"} /\ ev.hit
    /\ ev.mob \in Mushrooms
    /\ player.velocity # <<0, 0>>
    /\ world.mobs[ev.mob].present

\* C5: picking up a star makes the player invincible; while the player is
\* invincible, change_health with a negative amount and every collision with
\* a mob, from any direction, leave the health as it is.
C5_InvincibleNoDamage ==
    [][/\ \A i \in ItemIds : PlayerCollideItem(i) => player'.invincible
       /\ player.invincible =>
             /\ change_health(player, -1).health = player.health
             /\ \A m \in MobIds, d \in Dirs :
                   PlayerCollideMob(m, d) => player'.health = player.health
      ]_vars

C5_Witness ==
    /\ player.invincible
    /\ ev.op = "player_mob" /\ ~ev.hit
    /\ ~world.mobs[ev.mob].present

\* C6 as claimed: the health stays between 0 and max_health.
C6_HealthInRange == 0 <= player.health /\ player.health <= player.max_health

----------------------------------------------------------------------------
(* Switches (SpecSwitches) *)

InRange(w, s) == get_things_in_range(w, s[1], s[2], 3 * BLOCK_SIZE)

\* the seconds since the activation that switch s has recorded
Elapsed(s) == now - world.switches[s].switch_time

\* C7 as claimed: a switch becomes active only through a player collision
\* from Above while it is inactive, and that hit records the time; a player
\* collision with an active switch, or from a direction other than Above,
\* changes neither the switch's active flag nor its recorded activation time.
C7_SwitchActivation ==
    [][\A s \in (DOMAIN world.switches) \cap (DOMAIN world'.switches) :
          /\ (~world.switches[s].active /\ world'.switches[s].active)
                => /\ PlayerCollideBlock(s, "A", "None")
                   /\ world'.switches[s].switch_time = now
          /\ \A d \in Dirs :
                (/\ PlayerCollideBlock(s, d, "None")
                 /\ world.switches[s].active \/ d # "A")
                => /\ world'.switches[s].active = world.switches[s].active
                   /\ world'.switches[s].switch_time = world.switches[s].switch_time
      ]_vars

\* C8 as claimed: after the step of a switch that is active with less than
\* 10 s elapsed since its activation, no brick is within the 3-block radius of
\* the switch, and every brick the step removed has an Empty block in its place.
C8_ActiveSwitchClearsBricks ==
    [][\A s \in DOMAIN world.switches :
          (/\ SwitchStep(s)
           /\ world.switches[s].active
           /\ Elapsed(s) < 10)
          => /\ \A q \in InRange(world', s) : world'.blocks[q] # "brick"
             /\ \A q \in DOMAIN world.blocks :
                   (world.blocks[q] = "brick" /\ world'.blocks[q] # "brick")
                   => world'.blocks[q] = "empty_block"
      ]_vars

\* C9 as claimed: the step of an active switch with 10 s or more elapsed since
\* its activation turns every Empty block within the radius into a brick,
\* makes the switch inactive and clears the player's on-switch flag, and the
\* bricks of the world are then the bricks there were before the activation.
C9_ExpiryRestoresBricks ==
    [][\A s \in DOMAIN world.switches :
          (/\ SwitchStep(s)
           /\ world.switches[s].active
           /\ Elapsed(s) >= 10)
          => /\ \A q \in InRange(world, s) :
                   world.blocks[q] = "empty_block" => world'.blocks[q] = "brick"
             /\ ~world'.switches[s].active
             /\ ~player'.switch
             /\ BlocksWithId(world', "brick") = bricks0
      ]_vars

\* C10 as claimed: a switch step makes an Empty block in the radius of an
\* active switch a brick again only when 10 s have elapsed since that switch's
\* most recent activation, the first step of the switch at or after that instant leaves no
\* Empty block in its radius, and an activation starts the window anew.
C10_RestoreAtTenSeconds ==
    [][\A s \in (DOMAIN world.switches) \cap (DOMAIN world'.switches) :
          /\ (/\ \E r \in DOMAIN world.switches : SwitchStep(r)
              /\ world.switches[s].active
              /\ \E q \in InRange(world, s) :
                    world.blocks[q] = "empty_block" /\ world'.blocks[q] = "brick")
             => Elapsed(s) >= 10
          /\ (/\ SwitchStep(s)
              /\ world.switches[s].active
              /\ Elapsed(s) >= 10)
             => \A q \in InRange(world', s) : world'.blocks[q] # "empty_block"
          /\ (~world.switches[s].active /\ world'.switches[s].active)
             => world'.switches[s].switch_time = now
      ]_vars

----------------------------------------------------------------------------
(* The step loop (SpecSwitches) *)

\* C11 as claimed: no tick of the step loop fails; a switch that is stepped
\* while the player's on-switch flag is set has a recorded activation time.
C11_StepLoopNeverFails ==
    /\ pc # "crashed"
    /\ \A s \in pending :
          (pc = "steps" /\ s = NextToStep(pending) /\ player.switch)
          => world.switches[s].switch_time # NoTime

----------------------------------------------------------------------------
(* Empty blocks (SpecSwitches) *)

\* C12: a contact of the player or of a mob with a block whose id is
\* empty_block makes the handler return False, and no on_hit is invoked.
C12_EmptyBlockNotSolid ==
    [][(/\ ev'.op \in {"player_block", "mob_block"}
        /\ world.blocks[ev'.blk] = "empty_block")
       => /\ ev'.ret = "False"
          /\ ~ev'.hit
      ]_vars

C12_Witness ==
    /\ ev.op = "player_block"
    /\ ev.blk \in DOMAIN world.blocks
    /\ world.blocks[ev.blk] = "empty_block"
    /\ ev.ret = "False"
    /\ ~ev.hit

----------------------------------------------------------------------------
(* Items, bounce blocks, flags and tunnels (SpecGoals) *)

\* C13: a contact of the player with an item applies the item's effect to
\* the player exactly once (a coin adds its value to the score, a star makes
\* the player invincible), removes the item from the world in the same
\* dispatch, and the handler returns False.
C13_ItemCollectedOnce ==
    [][\A i \in ItemIds :
          PlayerCollideItem(i)
          => /\ ItemKind(i) = "coin" => player' = [player EXCEPT !.score = @ + 1]
             /\ ItemKind(i) = "star"
                   => player' = [player EXCEPT !.invincible = TRUE, !.pass = TRUE]
             /\ i \notin world'.items
             /\ ev'.ret = "False"
      ]_vars

C13_Witness ==
    /\ ev.op = "player_item"
    /\ ev.item = "coin1"
    /\ ev.ret = "False"
    /\ player.score = 1
    /\ "coin1" \notin world.items

\* C14 as claimed: a hit of a bounce block from Above sets the player's
\* y-velocity to the fixed upward value whatever it was before and leaves the
\* x-velocity; a hit from another direction leaves the velocity unchanged.
C14_BounceOverridesVelocity ==
    [][(/\ ev'.op = "player_block"
        /\ world.blocks[ev'.blk] = "bounce_block")
       => IF ev'.dir = "A"
          THEN player'.velocity = <<player.velocity[1], -280>>
          ELSE player'.velocity = player.velocity
      ]_vars

\* C15 as claimed: a contact of the player with a flag from a direction other
\* than Above completes no level: it writes no high score and changes neither
\* the current level nor the end flag.
C15_FlagOnlyFromAbove ==
    [][(/\ ev'.op = "player_block"
        /\ world.blocks[ev'.blk] = "flag"
        /\ ev'.dir # "A")
       => /\ app'.high_scores = app.high_scores
          /\ app'.current_level = app.current_level
          /\ app'.end = app.end
      ]_vars

\* C16: at the prompt of a flag, an entered name writes one record (name,
\* current score) for the current level, and then either the end flag is set
\* and the world stays (the goal is END) or the world is replaced by the goal
\* level, which becomes the current level; a cancelled prompt writes nothing,
\* keeps the world and the current level and does not set the end flag.
C16_LevelCompletion ==
    [][\A b \in DOMAIN world.blocks, d \in Dirs :
          world.blocks[b] = "flag"
          => /\ PlayerCollideBlock(b, d, "ann")
                => /\ app'.high_scores =
                         Append(app.high_scores,
                                [level |-> app.current_level, name |-> "ann",
                                 score |-> player.score])
                   /\ IF Goal(app.current_level) = "END"
                      THEN /\ app'.end
                           /\ world' = world
                           /\ app'.current_level = app.current_level
                      ELSE /\ app'.end = app.end
                           /\ world' = load_world(Goal(app.current_level))
                           /\ app'.current_level = Goal(app.current_level)
             /\ PlayerCollideBlock(b, d, "None")
                => /\ app'.high_scores = app.high_scores
                   /\ world' = world
                   /\ app'.current_level = app.current_level
                   /\ app'.end = app.end
      ]_vars

C16_Witness ==
    /\ ev.op = "player_block"
    /\ app.high_scores = <<[level |-> "g1", name |-> "ann", score |-> 1]>>
    /\ app.current_level = "g2"
    /\ world = load_world("g2")

\* the tunnel blocks of the current world the player stands on: an Above
\* contact with them has begun and has not separated
StandingOnTunnel ==
    {c[1] : c \in {t \in world.touching : t[2] = "A" /\ world.blocks[t[1]] = "tunnel"}}

\* C17 as claimed: a duck request moves the game to the tunnel sub-level only
\* if the player stands on a tunnel block of the current world.
C17_DuckOnlyOnTunnel ==
    [][(Duck /\ app'.current_level # app.current_level) => StandingOnTunnel # {}]_vars

----------------------------------------------------------------------------
(* The invincibility timestamp and the mob handler's result (SpecMobs) *)

\* C18 as claimed: get_time stamps the activation time only at the first
\* query after a change_invincibility(True) made while the player was not
\* invincible: the stamp changes only when a stamp is due, and a stamp falls
\* due only in a step that takes the player from not invincible to invincible.
C18_StampOnlyAfterTransition ==
    [][/\ player'.start_time # player.start_time
             => /\ player.pass
                /\ player'.start_time = get_time(player, now).start_time
       /\ (player'.pass /\ ~player.pass)
             => (~player.invincible /\ player'.invincible)
      ]_vars

\* C20 as claimed: when a non-invincible player hits a mushroom from Above,
\* the handler returns False, besides removing the mob and bouncing the player.
C20_AboveHitNotSolid ==
    [][(/\ ev'.op = "player_mob"
        /\ ev'.mob \in Mushrooms
        /\ ev'.dir = "A"
        /\ ~player.invincible)
       => /\ ev'.ret = "False"
          /\ ~world'.mobs[ev'.mob].present
          /\ player'.velocity = <<0, -280>>
      ]_vars

----------------------------------------------------------------------------
(* Transitions inside the dispatch pass (SpecGoals) *)

\* a step that runs a collision handler
HandlerStep ==
    ev'.op \in {"player_block", "player_separate", "player_item", "player_mob",
                "mob_block"}

\* C19 as claimed: while a collision handler runs, the world is not replaced
\* by another level and no high score is written.
C19_NoTransitionInHandler ==
    [][HandlerStep
       => /\ app'.current_level = app.current_level
          /\ app'.high_scores = app.high_scores
      ]_vars

----------------------------------------------------------------------------
(* Mobs against blocks and against each other (SpecCreatures) *)

\* C21: in a mob-block collision a mushroom's tempo is negated exactly when
\* the direction is Left or Right and is unchanged for any other direction; a
\* fireball is removed from the world, and the block is removed exactly when
\* its id is brick; the handler returns False exactly when the block's id is
\* empty_block.
C21_MobCollideBlock ==
    [][ev'.op = "mob_block"
       => /\ MobKind(ev'.mob) = "mushroom"
               => /\ world'.mobs[ev'.mob].present
                  /\ world'.mobs[ev'.mob].tempo =
                        IF ev'.dir \in {"L", "R"} THEN -world.mobs[ev'.mob].tempo
                        ELSE world.mobs[ev'.mob].tempo
          /\ MobKind(ev'.mob) = "fireball"
               => /\ ~world'.mobs[ev'.mob].present
                  /\ world'.blocks[ev'.blk] =
                        IF world.blocks[ev'.blk] = "brick" THEN "none"
                        ELSE world.blocks[ev'.blk]
          /\ (ev'.ret = "False") <=> (world.blocks[ev'.blk] = "empty_block")
      ]_vars

\* a fireball has hit a brick, and took it along
C21_Witness ==
    /\ ev.op = "mob_block"
    /\ MobKind(ev.mob) = "fireball"
    /\ ~world.mobs[ev.mob].present
    /\ world.blocks[ev.blk] = "none"
    /\ ev.ret = "True"

\* C22: in a mob-mob collision, if either mob is a fireball both mobs are
\* removed from the world and neither tempo is changed; otherwise, if either
\* mob is a mushroom, the tempo of both mobs is negated and both stay in the
\* world; in every case the handler returns False.
C22_MobCollideMob ==
    [][ev'.op = "mob_mob"
       => LET mob1 == ev'.mob
              mob2 == ev'.item
          IN  /\ ev'.ret = "False"
              /\ IF MobKind(mob1) = "fireball" \/ MobKind(mob2) = "fireball"
                 THEN \A m \in {mob1, mob2} :
                         /\ ~world'.mobs[m].present
                         /\ world'.mobs[m].tempo = world.mobs[m].tempo
                 ELSE (MobKind(mob1) = "mushroom" \/ MobKind(mob2) = "mushroom")
                         => \A m \in {mob1, mob2} :
                               /\ world'.mobs[m].present
                               /\ world'.mobs[m].tempo = -world.mobs[m].tempo
      ]_vars

\* two mushrooms have met, and both walk the other way
C22_Witness ==
    /\ ev.op = "mob_mob"
    /\ MobKind(ev.mob) = "mushroom" /\ MobKind(ev.item) = "mushroom"
    /\ world.mobs[ev.mob].present /\ world.mobs[ev.item].present
    /\ world.mobs[ev.mob].tempo = 20 /\ world.mobs[ev.item].tempo = 20

----------------------------------------------------------------------------
(* The star (SpecStars, SpecStarsLive) *)

\* C24: after a star pickup the player stays invincible on every tick until
\* the first tick at which more than 10 s have elapsed since the stamped
\* time, and at that tick the step loop clears invincibility; while the step
\* loop keeps running and no further star is collected, invincibility always
\* eventually ends.
C24_InvincibleTenSeconds ==
    /\ [][LET tick == pc = "contacts" /\ pc' = "idle"
              over == (now - get_time(player, now).start_time) > 10
          IN  /\ (player.invincible /\ tick /\ over) => ~player'.invincible
              /\ (player.invincible /\ ~(tick /\ over)) => player'.invincible
         ]_vars
    /\ (player.invincible ~> ~player.invincible)

\* the star was picked up, and a tick later than ten seconds after its stamp
\* has ended invincibility
C24_Witness ==
    /\ ~player.invincible
    /\ player.start_time # NoTime
    /\ now - player.start_time > 10
    /\ "star1" \notin world.items
    /\ pc = "idle"

\* C25: while the player is invincible, every player-mob contact begin removes
\* the mob from the world whatever its kind and whatever the direction, does
\* not invoke the mob's on_hit, and leaves the player's health and velocity
\* unchanged.
C25_InvincibleRemovesMob ==
    [][(ev'.op = "player_mob" /\ player.invincible)
       => /\ ~world'.mobs[ev'.mob].present
          /\ ~ev'.hit
          /\ player'.health = player.health
          /\ player'.velocity = player.velocity
      ]_vars

\* an invincible player has landed on a fireball
C25_Witness ==
    /\ player.invincible
    /\ ev.op = "player_mob" /\ ev.dir = "A" /\ ~ev.hit
    /\ MobKind(ev.mob) = "fireball"
    /\ ~world.mobs[ev.mob].present
    /\ player.velocity = <<0, 0>>
    /\ player.health = player.max_health

----------------------------------------------------------------------------
(* The death handling of the step loop (SpecMobs) *)

\* C26 as claimed: when the step loop finds the player dead and runs its
\* death handling, the player is no longer dead at the end of that tick.
C26_DeathHandlingRevives ==
    [][(pc = "contacts" /\ pc' = "idle" /\ is_dead(player)) => ~is_dead(player')]_vars

----------------------------------------------------------------------------
(* The switches and the player's on-switch flag (SpecSwitches) *)

\* C27 as claimed: each switch that reports is_active() true has the
\* player's on-switch flag set.
C27_ActiveImpliesOnSwitch ==
    \A s \in DOMAIN world.switches : world.switches[s].active => player.switch

----------------------------------------------------------------------------
(* Jumping (SpecJumps) *)

\* C28: a jump request changes the player's velocity, the y-velocity reduced
\* by 150, only when the jumping flag is false, and then sets the flag; the
\* flag is cleared only by a player-block contact begin resolved as Above; so
\* between a jump and the next Above contact with a block a further jump
\* request leaves the velocity unchanged.
C28_NoDoubleJump ==
    [][/\ ev'.op = "jump"
          => IF player.jumping
             THEN player' = player
             ELSE /\ player'.jumping
                  /\ player'.velocity = <<player.velocity[1], player.velocity[2] - 150>>
       /\ (player.jumping /\ ~player'.jumping)
          => (ev'.op = "player_block" /\ ev'.dir = "A")
      ]_vars

\* a jump was requested in the air: the flag is set, the velocity is that of
\* the one jump
C28_Witness ==
    /\ ev.op = "jump" /\ ev.ret = "False"
    /\ player.jumping
    /\ player.velocity = <<0, -150>>

----------------------------------------------------------------------------
(* The construction of a world (SpecBuild) *)

\* C23: for every level character that has no registered builder, at grid
\* cell (x, y), world construction adds exactly one generic placeholder entity
\* at (x * BLOCK_SIZE, y * BLOCK_SIZE) with size (BLOCK_SIZE, BLOCK_SIZE), and
\* every registered block, item and mob is likewise placed at its grid cell
\* scaled by BLOCK_SIZE.
C23_PlacedAtScaledCell ==
    [][ev'.op = "build"
       => LET char == ev'.item
              x == ev'.blk[1]
              y == ev'.blk[2]
              added == world'.things[Len(world'.things)]
          IN  /\ Len(world'.things) = Len(world.things) + 1
              /\ SubSeq(world'.things, 1, Len(world.things)) = world.things
              /\ added.position = <<x * BLOCK_SIZE, y * BLOCK_SIZE>>
              /\ char \in DOMAIN BLOCKS => added.kind = "block"
              /\ char \in DOMAIN ITEMS => added.kind = "item"
              /\ char \in DOMAIN MOBS => added.kind = "mob"
              /\ char \notin (DOMAIN BLOCKS \cup DOMAIN ITEMS \cup DOMAIN MOBS)
                    => /\ added.kind = "thing"
                       /\ added.cls = "Entity"
                       /\ added.size = <<BLOCK_SIZE, BLOCK_SIZE>>
      ]_vars

\* a file with a switch and, in the second column of the second row, a
\* character without a builder was read to its end
C23_Witness ==
    /\ pending = {}
    /\ ev.op = "build" /\ ev.item = "x" /\ ev.blk = <<1, 1>>
    /\ Len(world.things) = 2
    /\ world.things[1].cls = "Switch"
    /\ world.things[2] = [kind |-> "thing", cls |-> "Entity", position |-> <<16, 16>>,
                           size |-> <<16, 16>>]

============================================================================
